---- MODULE Spec2Model ----
(***************************************************************************)
(* Model of cdvae/pl_data/datamodule.py: the CrystDataModule object (its   *)
(* constructor, get_scaler, setup and the three dataloader operations) and *)
(* worker_init_fn, the seeding hook run in every data-loading worker.      *)
(*                                                                         *)
(* Python objects are records.  An object reference is the record's id or  *)
(* oid field: two references denote the same object iff the fields agree.  *)
(* An Optional value is a sequence of length 0 (None) or 1 (the value).    *)
(* A raising call ends its handler at the raise: the assignments made      *)
(* before it stay, the ones after it never happen.                         *)
(***************************************************************************)
EXTENDS Integers, Sequences, FiniteSets, TLC

(***************************************************************************)
(* Bounds of the model.                                                    *)
(***************************************************************************)
MaxVal == 2
MaxTest == 2
MaxProps == 2
MaxCalls == 2
MaxEpochs == 2
MaxWorkers == 2
MaxPrior == 1
WordBits == 8

VARIABLES
    status,            \* "new" before the constructor ran, "ready" after it returned, "failed" after it raised
    datasets,          \* self.datasets: the val and test configuration lists (train is one configuration)
    num_workers,       \* self.num_workers
    train_batch_size,  \* self.train_batch_size
    val_batch_size,    \* self.val_batch_size
    test_batch_size,   \* self.test_batch_size
    scaler_path,       \* self.scaler_path
    train_dataset,     \* self.train_dataset  : Optional[Dataset]
    val_datasets,      \* self.val_datasets   : Optional[Sequence[Dataset]]
    test_datasets,     \* self.test_datasets  : Optional[Sequence[Dataset]]
    lattice_scaler,    \* self.lattice_scaler
    prop_scalers,      \* self.prop_scalers
    ncalls,            \* number of setup calls so far (the constructor is call 0)
    last,              \* the last operation: its name, stage, the failure of an underlying call, what the caller got
    built,             \* ids of the datasets hydra.utils.instantiate built from datasets.train, in order
    reads,             \* the files torch.load was asked to open, in order
    train_prop,        \* train_dataset.prop as get_scaler read it (line 72); <<>> if it never did
    epoch,             \* number of iterators started so far (one per epoch)
    workers            \* the data-loading worker processes, by <<epoch, worker id>>

mvars == <<status, datasets, num_workers, train_batch_size, val_batch_size,
           test_batch_size, scaler_path, train_dataset, val_datasets,
           test_datasets, lattice_scaler, prop_scalers, ncalls, last, built,
           reads, train_prop>>
wvars == <<epoch, workers>>
vars == <<mvars, wvars>>

(***************************************************************************)
(* Values.                                                                 *)
(***************************************************************************)
None == <<>>
Some(x) == <<x>>

NoStage == "<None>"
Stages == {NoStage, "fit", "validate", "test"}

Cfg(split, i) == [split |-> split, idx |-> i]
NoCfg == Cfg("", 0)
TrainCfg == Cfg("train", 0)
CfgList(split, n) == [i \in 1..n |-> Cfg(split, i)]

\* train_dataset.prop: the first properties of a list that is not in alphabetical order
PropOrder == <<"energy", "band_gap", "e_above_hull", "density">>
PropLists == {SubSeq(PropOrder, 1, n) : n \in 0..MaxProps}

LatticeFile == "lattice_scaler.pt"
PropFile == "prop_scalers.pt"
Files == {LatticeFile, PropFile}
Paths == {None, Some(""), Some("ckpt")}

BatchSizes == {[train |-> 8, val |-> 4, test |-> 2]}
NumWorkers == {[train |-> 3, val |-> 1, test |-> 0]}

NoError == [type |-> "none", split |-> "", idx |-> 0, file |-> ""]
InstantiationException(cfg) ==
    [type |-> "InstantiationException", split |-> cfg.split, idx |-> cfg.idx, file |-> ""]
FileNotFoundError(file) ==
    [type |-> "FileNotFoundError", split |-> "", idx |-> 0, file |-> file]
TypeError == [type |-> "TypeError", split |-> "", idx |-> 0, file |-> ""]

\* A scaler object; NoScaler is what a dataset holds before one is attached.
Scaler(oid, origin, key, path) == [oid |-> oid, origin |-> origin, key |-> key, path |-> path]
NoScaler == Scaler("unset", "none", "", None)
ScalerList(oid, origin, items, path) == [oid |-> oid, origin |-> origin, items |-> items, path |-> path]
NoScalerList == ScalerList("unset", "none", <<>>, None)

\* A dataset object as hydra.utils.instantiate returns it: fresh, no scaler of the module on it.
DatasetId(call, cfg) == [call |-> call, split |-> cfg.split, idx |-> cfg.idx]
NoId == DatasetId(0, NoCfg)
NewDataset(call, cfg) ==
    [id |-> DatasetId(call, cfg), lattice_scaler |-> NoScaler, prop_scalers |-> NoScalerList]

NoCall == [op |-> "none", stage |-> NoStage, underlying |-> NoError, raised |-> NoError, ret |-> <<>>]

(***************************************************************************)
(* get_scaler (lines 64-78).  Inputs from the environment: fs, the files   *)
(* that exist under the scaler path; prop, the prop list of the training   *)
(* dataset; bad, the one configuration (or NoCfg) that hydra cannot        *)
(* instantiate at the time of the call.                                    *)
(***************************************************************************)
\* a variant of ComputesFromData: the test "not scaler_path", which an empty path passes too
ComputesFromDataIfFalsy(path) == path = None \/ path = Some("")

\* line 66: the test that picks the source
ComputesFromData(path) == path = None

\* get_scaler_from_data_list(train_dataset.cached_data, key): a new scaler fitted on the training split
get_scaler_from_data_list(key) == Scaler(key, "train", key, None)

\* torch.load(Path(scaler_path) / file) of an existing file: the object stored in it
torch_load(path, file) == Scaler(file, "file", file, path)

\* a variant of ComputeScalers: the dataset built for the scalers is kept as self.train_dataset
ComputeScalersKeepingDataset(prop, bad) ==
    IF bad = TrainCfg
    THEN [lattice |-> NoScaler, props |-> NoScalerList, built |-> <<>>, reads |-> <<>>,
          kept |-> None, prop |-> <<>>,
          underlying |-> InstantiationException(TrainCfg),
          err |-> InstantiationException(TrainCfg)]
    ELSE [lattice |-> get_scaler_from_data_list("scaled_lattice"),
          props |-> ScalerList("prop_scalers", "train",
                               [i \in 1..Len(prop) |-> get_scaler_from_data_list(prop[i])], None),
          built |-> <<DatasetId(0, TrainCfg)>>, reads |-> <<>>,
          kept |-> Some(NewDataset(0, TrainCfg)), prop |-> prop,
          underlying |-> NoError, err |-> NoError]

\* lines 67-73
ComputeScalers(prop, bad) ==
    IF bad = TrainCfg
    THEN [lattice |-> NoScaler, props |-> NoScalerList, built |-> <<>>, reads |-> <<>>,
          kept |-> None, prop |-> <<>>,
          underlying |-> InstantiationException(TrainCfg),
          err |-> InstantiationException(TrainCfg)]
    ELSE [lattice |-> get_scaler_from_data_list("scaled_lattice"),
          props |-> ScalerList("prop_scalers", "train",
                               [i \in 1..Len(prop) |-> get_scaler_from_data_list(prop[i])], None),
          built |-> <<DatasetId(0, TrainCfg)>>, reads |-> <<>>,
          kept |-> None, prop |-> prop,
          underlying |-> NoError, err |-> NoError]

\* a variant of LoadScalers: a missing file is caught and the scaler left at a default
LoadScalersWithDefault(path, fs) ==
    [lattice |-> IF LatticeFile \in fs THEN torch_load(path, LatticeFile) ELSE NoScaler,
     props |-> IF PropFile \in fs THEN ScalerList(PropFile, "file", <<>>, path) ELSE NoScalerList,
     built |-> <<>>, reads |-> <<LatticeFile, PropFile>>, kept |-> None, prop |-> <<>>,
     underlying |-> IF LatticeFile \notin fs THEN FileNotFoundError(LatticeFile)
                    ELSE IF PropFile \notin fs THEN FileNotFoundError(PropFile)
                    ELSE NoError,
     err |-> NoError]

\* lines 75-78
LoadScalers(path, fs) ==
    IF LatticeFile \notin fs
    THEN [lattice |-> NoScaler, props |-> NoScalerList, built |-> <<>>,
          reads |-> <<LatticeFile>>, kept |-> None, prop |-> <<>>,
          underlying |-> FileNotFoundError(LatticeFile),
          err |-> FileNotFoundError(LatticeFile)]
    ELSE IF PropFile \notin fs
    THEN [lattice |-> torch_load(path, LatticeFile), props |-> NoScalerList, built |-> <<>>,
          reads |-> <<LatticeFile, PropFile>>, kept |-> None, prop |-> <<>>,
          underlying |-> FileNotFoundError(PropFile),
          err |-> FileNotFoundError(PropFile)]
    ELSE [lattice |-> torch_load(path, LatticeFile),
          props |-> ScalerList(PropFile, "file", <<>>, path), built |-> <<>>,
          reads |-> <<LatticeFile, PropFile>>, kept |-> None, prop |-> <<>>,
          underlying |-> NoError, err |-> NoError]

get_scaler(path, fs, prop, bad) ==
    IF ComputesFromData(path) THEN ComputeScalers(prop, bad) ELSE LoadScalers(path, fs)

(***************************************************************************)
(* worker_init_fn (lines 18-33) and the worker processes that call it.     *)
(*                                                                         *)
(* Seeds are unsigned integers of SeedWords words; a word has WordBits     *)
(* bits (32 in numpy, fewer here) and all word arithmetic wraps.           *)
(***************************************************************************)
Word == 2 ^ WordBits
SeedWords == 2
SeedSpace == Word * Word
XSHIFT == WordBits \div 2
POOL_SIZE == 4
STATE_WORDS == 4
INIT_A == 229
MULT_A == 117
INIT_B == 221
MULT_B == 237
MIX_MULT_L == 221
MIX_MULT_R == 21

RECURSIVE Xor(_, _)
Xor(a, b) ==
    IF a = 0 THEN b
    ELSE IF b = 0 THEN a
    ELSE ((a + b) % 2) + 2 * Xor(a \div 2, b \div 2)

RECURSIVE Pow(_, _)
Pow(m, k) == IF k = 0 THEN 1 ELSE (m * Pow(m, k - 1)) % Word

\* the integer as little-endian words, at least one (SeedSequence's coercion of its entropy)
RECURSIVE IntToWords(_)
IntToWords(n) ==
    IF n < Word THEN <<n>> ELSE <<n % Word>> \o IntToWords(n \div Word)

\* the k-th call of hashmix while the pool is filled and mixed (k = 1, 2, ...)
hashmix(value, k) ==
    LET c0 == (INIT_A * Pow(MULT_A, k - 1)) % Word
        c1 == (c0 * MULT_A) % Word
        v == (Xor(value, c0) * c1) % Word
    IN Xor(v, v \div (2 ^ XSHIFT))

mix(x, y) ==
    LET r == (MIX_MULT_L * x - MIX_MULT_R * y) % Word
    IN Xor(r, r \div (2 ^ XSHIFT))

\* the k-th (source, destination) pair of the all-to-all mixing, k = 0 .. POOL_SIZE*(POOL_SIZE-1)-1
MixSrc(k) == (k \div (POOL_SIZE - 1)) + 1
MixDst(k) ==
    LET r == (k % (POOL_SIZE - 1)) + 1
    IN IF r < MixSrc(k) THEN r ELSE r + 1

RECURSIVE MixPool(_, _)
MixPool(pool, k) ==
    IF k = 0 THEN pool
    ELSE LET p == MixPool(pool, k - 1)
             src == MixSrc(k - 1)
             dst == MixDst(k - 1)
         IN [p EXCEPT ![dst] = mix(p[dst], hashmix(p[src], POOL_SIZE + k))]

\* np.random.SeedSequence(entropy): the entropy pool
SeedSequence(entropy) ==
    LET filled == [i \in 1..POOL_SIZE |->
                      hashmix(IF i <= Len(entropy) THEN entropy[i] ELSE 0, i)]
    IN MixPool(filled, POOL_SIZE * (POOL_SIZE - 1))

\* ss.generate_state(n): n words drawn from the pool
generate_state(pool, n) ==
    [i \in 1..n |->
        LET c0 == (INIT_B * Pow(MULT_B, i - 1)) % Word
            c1 == (c0 * MULT_B) % Word
            v == (Xor(pool[((i - 1) % POOL_SIZE) + 1], c0) * c1) % Word
        IN Xor(v, v \div (2 ^ XSHIFT))]

Epochs == 1..MaxEpochs
WorkerIds == 0..(MaxWorkers - 1)
Slots == Epochs \X WorkerIds
BaseSeeds == {0, 1, Word - 1, (SeedSpace \div 2) - 1}
PriorStates == 0..MaxPrior

\* a worker process: the seed torch gave it, the generator state it inherited from its parent,
\* and what its numpy and random generators were last seeded with
NoWorker == [state |-> "absent", initial_seed |-> 0, inherited |-> 0, np_seed |-> <<>>, py_seed |-> 0]

\* The iterator of one epoch forks its workers, once the workers of the epoch before have
\* started.  Worker id gets the torch seed base_seed + id, base_seed drawn anew for every
\* iterator; numpy and random are copies of the parent's generators, the same in every
\* worker, which is what worker_init_fn is there to repair.
StartIterator(base_seed, prior) ==
    /\ epoch < MaxEpochs
    /\ \A w \in Slots : workers[w].state # "forked"
    /\ epoch' = epoch + 1
    /\ workers' = [w \in Slots |->
                      IF w[1] = epoch + 1
                      THEN [state |-> "forked",
                            initial_seed |-> (base_seed + w[2]) % SeedSpace,
                            inherited |-> prior,
                            np_seed |-> [i \in 1..STATE_WORDS |-> prior],
                            py_seed |-> prior]
                      ELSE workers[w]]

\* a variant of worker_init_fn: the worker id is part of the entropy
worker_init_fn_with_id(w, id) ==
    /\ workers[w].state = "forked"
    /\ LET uint64_seed == workers[w].initial_seed
           ss == SeedSequence(IntToWords(uint64_seed) \o IntToWords(id))
       IN workers' = [workers EXCEPT ![w] =
                         [state |-> "seeded",
                          initial_seed |-> uint64_seed,
                          inherited |-> workers[w].inherited,
                          np_seed |-> generate_state(ss, STATE_WORDS),
                          py_seed |-> uint64_seed]]
    /\ UNCHANGED epoch

\* a variant of worker_init_fn: random.seed is not called, random keeps the parent's state
worker_init_fn_numpy_only(w, id) ==
    /\ workers[w].state = "forked"
    /\ LET uint64_seed == workers[w].initial_seed
           ss == SeedSequence(IntToWords(uint64_seed))
       IN workers' = [workers EXCEPT ![w] =
                         [state |-> "seeded",
                          initial_seed |-> uint64_seed,
                          inherited |-> workers[w].inherited,
                          np_seed |-> generate_state(ss, STATE_WORDS),
                          py_seed |-> workers[w].py_seed]]
    /\ UNCHANGED epoch

\* lines 29-33, run in worker w with its id as the argument
worker_init_fn(w, id) ==
    /\ workers[w].state = "forked"
    /\ LET uint64_seed == workers[w].initial_seed
           ss == SeedSequence(IntToWords(uint64_seed))
       IN workers' = [workers EXCEPT ![w] =
                         [state |-> "seeded",
                          initial_seed |-> uint64_seed,
                          inherited |-> workers[w].inherited,
                          np_seed |-> generate_state(ss, STATE_WORDS),
                          py_seed |-> uint64_seed]]
    /\ UNCHANGED epoch

StartEpoch == \E base_seed \in BaseSeeds, prior \in PriorStates : StartIterator(base_seed, prior)

WorkerInit == \E w \in Slots : worker_init_fn(w, w[2])

(***************************************************************************)
(* __init__ (lines 37-58).                                                 *)
(***************************************************************************)
Init ==
    /\ status = "new"
    /\ datasets = [val |-> <<>>, test |-> <<>>]
    /\ num_workers = [train |-> 0, val |-> 0, test |-> 0]
    /\ train_batch_size = 0
    /\ val_batch_size = 0
    /\ test_batch_size = 0
    /\ scaler_path = None
    /\ train_dataset = None
    /\ val_datasets = None
    /\ test_datasets = None
    /\ lattice_scaler = NoScaler
    /\ prop_scalers = NoScalerList
    /\ ncalls = 0
    /\ last = NoCall
    /\ built = <<>>
    /\ reads = <<>>
    /\ train_prop = <<>>
    /\ epoch = 0
    /\ workers = [w \in Slots |-> NoWorker]

CrystDataModule(ds, nw, bs, path, fs, prop, bad) ==
    /\ status = "new"
    /\ LET g == get_scaler(path, fs, prop, bad)
       IN /\ datasets' = ds
          /\ num_workers' = nw
          /\ train_batch_size' = bs.train
          /\ val_batch_size' = bs.val
          /\ test_batch_size' = bs.test
          /\ scaler_path' = path
          /\ train_dataset' = g.kept
          /\ val_datasets' = None
          /\ test_datasets' = None
          /\ lattice_scaler' = g.lattice
          /\ prop_scalers' = g.props
          /\ built' = g.built
          /\ reads' = g.reads
          /\ train_prop' = g.prop
          /\ status' = IF g.err = NoError THEN "ready" ELSE "failed"
          /\ last' = [op |-> "__init__", stage |-> NoStage, underlying |-> g.underlying,
                      raised |-> g.err, ret |-> <<>>]
    /\ UNCHANGED ncalls

Construct ==
    \E nv \in 0..MaxVal, nt \in 0..MaxTest, nw \in NumWorkers, bs \in BatchSizes,
       path \in Paths, fs \in SUBSET Files, prop \in PropLists, bad \in {NoCfg, TrainCfg} :
        CrystDataModule([val |-> CfgList("val", nv), test |-> CfgList("test", nt)],
                        nw, bs, path, fs, prop, bad)

(***************************************************************************)
(* setup (lines 80-106).  s is the running state of one call: the three    *)
(* handles, the training datasets built so far, the failure of the         *)
(* underlying call (if any) and the exception leaving the handler.         *)
(***************************************************************************)
\* a variant of CoversFit: every stage but "test" takes the fit branch
CoversFitUnlessTest(stage) == stage # "test"

\* a variant of CoversTest: a stage of None does not take the test branch
CoversTestOnly(stage) == stage = "test"

\* line 84
CoversFit(stage) == stage = NoStage \/ stage = "fit"

\* line 99
CoversTest(stage) == stage = NoStage \/ stage = "test"

\* lines 93-94, 96-97, 105-106: the module's scalers are assigned to the dataset's fields
AttachScalers(d) ==
    [d EXCEPT !.lattice_scaler = lattice_scaler, !.prop_scalers = prop_scalers]

\* the exception of an underlying call leaves setup as it is (no try/except in lines 80-106)
Raise(s, e) == [s EXCEPT !.underlying = e, !.err = e]

\* a variant of SetTrain: no test of self.train_dataset is None, the dataset is built at every call
SetTrainAlways(s, bad, call) ==
    IF bad = TrainCfg THEN Raise(s, InstantiationException(TrainCfg))
    ELSE [s EXCEPT !.train = Some(NewDataset(call, TrainCfg)),
                   !.built = Append(@, DatasetId(call, TrainCfg))]

\* lines 85-87
SetTrain(s, bad, call) ==
    IF s.train # None THEN s
    ELSE IF bad = TrainCfg THEN Raise(s, InstantiationException(TrainCfg))
    ELSE [s EXCEPT !.train = Some(NewDataset(call, TrainCfg)),
                   !.built = Append(@, DatasetId(call, TrainCfg))]

\* lines 88-91
SetVal(s, bad, call) ==
    IF \E i \in 1..Len(datasets.val) : datasets.val[i] = bad
    THEN Raise(s, InstantiationException(bad))
    ELSE [s EXCEPT !.val = Some([i \in 1..Len(datasets.val) |-> NewDataset(call, datasets.val[i])])]

\* lines 93-97
AttachFit(s) ==
    [s EXCEPT !.train = Some(AttachScalers(s.train[1])),
              !.val = Some([i \in 1..Len(s.val[1]) |-> AttachScalers(s.val[1][i])])]

\* lines 100-103
SetTest(s, bad, call) ==
    IF \E i \in 1..Len(datasets.test) : datasets.test[i] = bad
    THEN Raise(s, InstantiationException(bad))
    ELSE [s EXCEPT !.test = Some([i \in 1..Len(datasets.test) |-> NewDataset(call, datasets.test[i])])]

\* lines 104-106
AttachTest(s) ==
    [s EXCEPT !.test = Some([i \in 1..Len(s.test[1]) |-> AttachScalers(s.test[1][i])])]

\* lines 84-97
FitPhase(s, bad, call) ==
    LET s1 == SetTrain(s, bad, call)
        s2 == IF s1.err = NoError THEN SetVal(s1, bad, call) ELSE s1
    IN IF s2.err = NoError THEN AttachFit(s2) ELSE s2

\* lines 99-106
TestPhase(s, bad, call) ==
    LET s1 == SetTest(s, bad, call)
    IN IF s1.err = NoError THEN AttachTest(s1) ELSE s1

setup(stage, bad) ==
    /\ status = "ready"
    /\ ncalls < MaxCalls
    /\ LET call == ncalls + 1
           s0 == [train |-> train_dataset, val |-> val_datasets, test |-> test_datasets,
                  built |-> built, underlying |-> NoError, err |-> NoError]
           s1 == IF CoversFit(stage) THEN FitPhase(s0, bad, call) ELSE s0
           s2 == IF s1.err = NoError /\ CoversTest(stage) THEN TestPhase(s1, bad, call) ELSE s1
       IN /\ train_dataset' = s2.train
          /\ val_datasets' = s2.val
          /\ test_datasets' = s2.test
          /\ built' = s2.built
          /\ ncalls' = call
          /\ last' = [op |-> "setup", stage |-> stage, underlying |-> s2.underlying,
                      raised |-> s2.err, ret |-> <<>>]
    /\ UNCHANGED <<status, datasets, num_workers, train_batch_size, val_batch_size,
                   test_batch_size, scaler_path, lattice_scaler, prop_scalers, reads, train_prop>>

Setup ==
    \E stage \in Stages :
        \E bad \in {NoCfg, TrainCfg} \cup {datasets.val[i] : i \in 1..Len(datasets.val)}
                     \cup {datasets.test[i] : i \in 1..Len(datasets.test)} :
            setup(stage, bad)

(***************************************************************************)
(* The dataloader operations (lines 109-138).                              *)
(***************************************************************************)
\* DataLoader(dataset, shuffle=, batch_size=, num_workers=, worker_init_fn=worker_init_fn)
DataLoader(dataset, shuffle, batch_size, nworkers) ==
    [dataset |-> dataset, shuffle |-> shuffle, batch_size |-> batch_size,
     num_workers |-> nworkers, worker_init_fn |-> "worker_init_fn"]

\* lines 110-116
TrainLoader ==
    DataLoader(IF train_dataset = None THEN NoId ELSE train_dataset[1].id,
               TRUE, train_batch_size, num_workers.train)

\* a variant of ValLoaders: the test split's batch size and worker count
ValLoadersWithTestSizes ==
    [i \in 1..Len(val_datasets[1]) |->
        DataLoader(val_datasets[1][i].id, FALSE, test_batch_size, num_workers.test)]

\* lines 119-127
ValLoaders ==
    [i \in 1..Len(val_datasets[1]) |->
        DataLoader(val_datasets[1][i].id, FALSE, val_batch_size, num_workers.val)]

\* lines 130-138
TestLoaders ==
    [i \in 1..Len(test_datasets[1]) |->
        DataLoader(test_datasets[1][i].id, FALSE, test_batch_size, num_workers.test)]

Returned(op, ret) ==
    /\ last' = [op |-> op, stage |-> NoStage, underlying |-> NoError, raised |-> NoError,
                ret |-> ret]

Raised(op, e) ==
    /\ last' = [op |-> op, stage |-> NoStage, underlying |-> e, raised |-> e, ret |-> <<>>]

\* Over a dataset of None the external DataLoader may refuse (the shuffling sampler
\* asks for the length of the dataset) or build the iterator: both outcomes are kept.
train_dataloader(accepts_none) ==
    /\ status = "ready"
    /\ IF train_dataset = None /\ ~accepts_none
       THEN Raised("train_dataloader", TypeError)
       ELSE Returned("train_dataloader", <<TrainLoader>>)
    /\ UNCHANGED <<status, datasets, num_workers, train_batch_size, val_batch_size,
                   test_batch_size, scaler_path, train_dataset, val_datasets,
                   test_datasets, lattice_scaler, prop_scalers, ncalls, built, reads,
                   train_prop>>

\* iterating None (line 126) is a TypeError
val_dataloader ==
    /\ status = "ready"
    /\ IF val_datasets = None
       THEN Raised("val_dataloader", TypeError)
       ELSE Returned("val_dataloader", ValLoaders)
    /\ UNCHANGED <<status, datasets, num_workers, train_batch_size, val_batch_size,
                   test_batch_size, scaler_path, train_dataset, val_datasets,
                   test_datasets, lattice_scaler, prop_scalers, ncalls, built, reads,
                   train_prop>>

\* iterating None (line 137) is a TypeError
test_dataloader ==
    /\ status = "ready"
    /\ IF test_datasets = None
       THEN Raised("test_dataloader", TypeError)
       ELSE Returned("test_dataloader", TestLoaders)
    /\ UNCHANGED <<status, datasets, num_workers, train_batch_size, val_batch_size,
                   test_batch_size, scaler_path, train_dataset, val_datasets,
                   test_datasets, lattice_scaler, prop_scalers, ncalls, built, reads,
                   train_prop>>

TrainDataloader == \E accepts_none \in BOOLEAN : train_dataloader(accepts_none)

Next ==
    \/ Construct /\ UNCHANGED wvars
    \/ Setup /\ UNCHANGED wvars
    \/ TrainDataloader /\ UNCHANGED wvars
    \/ val_dataloader /\ UNCHANGED wvars
    \/ test_dataloader /\ UNCHANGED wvars

Spec == Init /\ [][Next]_vars

WorkerNext ==
    \/ StartEpoch /\ UNCHANGED mvars
    \/ WorkerInit /\ UNCHANGED mvars

WorkerSpec == Init /\ [][WorkerNext]_vars

(***************************************************************************)
(* Properties.                                                             *)
(***************************************************************************)
Elems(s) == {s[i] : i \in 1..Len(s)}
ListOf(opt) == IF opt = None THEN <<>> ELSE opt[1]

\* every dataset object the module holds in one of its three handles
HeldDatasets == Elems(train_dataset) \cup Elems(ListOf(val_datasets)) \cup Elems(ListOf(test_datasets))

\* the step is a call of setup
SetupStep == ncalls' = ncalls + 1

\* C1: in every state after construction, whatever setup calls were made, every dataset
\* held in train_dataset, val_datasets or test_datasets carries the module's own
\* lattice_scaler and prop_scalers objects.
C1_HeldDatasetsShareScalers ==
    status = "ready" =>
        \A d \in HeldDatasets :
            /\ d.lattice_scaler = lattice_scaler
            /\ d.prop_scalers = prop_scalers

\* C2: the scaler path alone picks the source.  With a scaler path the constructor opens
\* files only, lattice_scaler.pt then prop_scalers.pt under that path, and builds no
\* training dataset; without one it opens no file, builds the training dataset once and
\* fits the lattice scaler and one scaler per entry of its prop list, in that order.
C2_ScalerSourceByPath ==
    status # "new" =>
        IF scaler_path = None
        THEN /\ reads = <<>>
             /\ status = "ready" =>
                   /\ Len(built) >= 1 /\ built[1] = DatasetId(0, TrainCfg)
                   /\ lattice_scaler.origin = "train"
                   /\ lattice_scaler.key = "scaled_lattice"
                   /\ prop_scalers.origin = "train"
                   /\ Len(prop_scalers.items) = Len(train_prop)
                   /\ \A i \in 1..Len(train_prop) :
                         /\ prop_scalers.items[i].origin = "train"
                         /\ prop_scalers.items[i].key = train_prop[i]
        ELSE /\ \A i \in 1..Len(built) : built[i].call # 0
             /\ train_prop = <<>>
             /\ \E n \in 1..2 : reads = SubSeq(<<LatticeFile, PropFile>>, 1, n)
             /\ status = "ready" =>
                   /\ reads = <<LatticeFile, PropFile>>
                   /\ lattice_scaler.origin = "file"
                   /\ lattice_scaler.key = LatticeFile
                   /\ lattice_scaler.path = scaler_path
                   /\ prop_scalers.origin = "file"
                   /\ prop_scalers.oid = PropFile
                   /\ prop_scalers.path = scaler_path

C2_Witness ==
    /\ status = "ready"
    /\ scaler_path = Some("")
    /\ reads = <<LatticeFile, PropFile>>
    /\ built = <<>>

Seeded == {w \in Slots : workers[w].state = "seeded"}

\* C3: two workers that started from the same initial seed end with the same numpy seed
\* and the same random seed, whatever their worker ids and whatever state their
\* generators were in before.
C3_SameInitialSeedSameSeeds ==
    \A a, b \in Seeded :
        workers[a].initial_seed = workers[b].initial_seed =>
            /\ workers[a].np_seed = workers[b].np_seed
            /\ workers[a].py_seed = workers[b].py_seed

C3_Witness ==
    \E a, b \in Seeded :
        /\ a[2] # b[2]
        /\ workers[a].inherited # workers[b].inherited
        /\ workers[a].initial_seed = workers[b].initial_seed
        /\ workers[a].np_seed # <<>>

C5_FailuresPropagate ==
    [][ last'.underlying # NoError =>
            /\ last'.raised = last'.underlying
            /\ last'.op = "__init__" =>
                  /\ status' = "failed"
                  /\ prop_scalers' = NoScalerList
                  /\ last'.underlying # FileNotFoundError(PropFile) => lattice_scaler' = NoScaler
            /\ last'.op = "setup" =>
                  /\ test_datasets' = test_datasets
                  /\ last'.underlying.split \in {"train", "val"} => val_datasets' = val_datasets
                  /\ last'.underlying.split = "train" => train_dataset' = train_dataset
      ]_vars

C5_Witness ==
    /\ last.op = "setup"
    /\ last.raised = InstantiationException(Cfg("val", 2))
    /\ train_dataset # None
    /\ val_datasets = None

\* C6: after construction the three handles are None, with or without a scaler path; a
\* handle goes from None to populated only in a setup call whose stage covers it; and
\* after a setup(None) that returned all three are populated, val_datasets and
\* test_datasets with one dataset per configuration of their list, in the list's order.
C6_PopulatedOnDemand ==
    [][ /\ (status = "new" /\ status' # "new") =>
              (train_dataset' = None /\ val_datasets' = None /\ test_datasets' = None)
        /\ (train_dataset = None /\ train_dataset' # None) =>
              (SetupStep /\ last'.op = "setup" /\ last'.stage \in {NoStage, "fit"})
        /\ (val_datasets = None /\ val_datasets' # None) =>
              (SetupStep /\ last'.op = "setup" /\ last'.stage \in {NoStage, "fit"})
        /\ (test_datasets = None /\ test_datasets' # None) =>
              (SetupStep /\ last'.op = "setup" /\ last'.stage \in {NoStage, "test"})
        /\ (SetupStep /\ last'.stage = NoStage /\ last'.raised = NoError) =>
              /\ train_dataset' # None /\ val_datasets' # None /\ test_datasets' # None
              /\ train_dataset'[1].id.split = "train"
              /\ Len(val_datasets'[1]) = Len(datasets.val)
              /\ \A i \in 1..Len(datasets.val) :
                    Cfg(val_datasets'[1][i].id.split, val_datasets'[1][i].id.idx) = datasets.val[i]
              /\ Len(test_datasets'[1]) = Len(datasets.test)
              /\ \A i \in 1..Len(datasets.test) :
                    Cfg(test_datasets'[1][i].id.split, test_datasets'[1][i].id.idx) = datasets.test[i]
      ]_vars

C6_Witness ==
    /\ last.op = "setup" /\ last.stage = NoStage /\ last.raised = NoError
    /\ ncalls = 1
    /\ train_dataset # None
    /\ val_datasets # None /\ Len(val_datasets[1]) = 2
    /\ test_datasets # None /\ Len(test_datasets[1]) = 2

\* C7: setup("fit") leaves test_datasets as it was, setup("test") leaves train_dataset and
\* val_datasets as they were, setup of any other stage than None, "fit", "test" leaves all
\* three, and no setup changes the module's scalers, batch sizes or worker counts.
C7_SetupFrame ==
    [][ SetupStep =>
            /\ last'.stage = "fit" => test_datasets' = test_datasets
            /\ last'.stage = "test" =>
                  (train_dataset' = train_dataset /\ val_datasets' = val_datasets)
            /\ last'.stage \notin {NoStage, "fit", "test"} =>
                  /\ train_dataset' = train_dataset
                  /\ val_datasets' = val_datasets
                  /\ test_datasets' = test_datasets
            /\ lattice_scaler' = lattice_scaler
            /\ prop_scalers' = prop_scalers
            /\ train_batch_size' = train_batch_size
            /\ val_batch_size' = val_batch_size
            /\ test_batch_size' = test_batch_size
            /\ num_workers' = num_workers
      ]_vars

C7_Witness ==
    /\ last.op = "setup" /\ last.stage = "validate"
    /\ ncalls = 2
    /\ train_dataset # None
    /\ val_datasets # None
    /\ test_datasets = None

ModuleState ==
    <<status, datasets, num_workers, train_batch_size, val_batch_size, test_batch_size,
      scaler_path, train_dataset, val_datasets, test_datasets, lattice_scaler, prop_scalers>>

IsLoader(l, dataset, shuffle, batch_size, nworkers) ==
    /\ l.dataset = dataset.id
    /\ l.shuffle = shuffle
    /\ l.batch_size = batch_size
    /\ l.num_workers = nworkers
    /\ l.worker_init_fn = "worker_init_fn"

\* C8: a dataloader operation that returns changes nothing of the module and returns:
\* train_dataloader one shuffled iterator over train_dataset with the train batch size and
\* worker count; val_dataloader and test_dataloader one unshuffled iterator per dataset of
\* their handle, in its order, with the split's batch size and worker count; all of them
\* with worker_init_fn.
C8_LoadersMirrorDatasets ==
    [][ (last' # last /\ last'.op \in {"train_dataloader", "val_dataloader", "test_dataloader"}) =>
            /\ ModuleState' = ModuleState
            /\ (last'.op = "train_dataloader" /\ last'.raised = NoError /\ train_dataset # None) =>
                  /\ Len(last'.ret) = 1
                  /\ IsLoader(last'.ret[1], train_dataset[1], TRUE, train_batch_size,
                              num_workers.train)
            /\ (last'.op = "val_dataloader" /\ last'.raised = NoError) =>
                  /\ val_datasets # None
                  /\ Len(last'.ret) = Len(val_datasets[1])
                  /\ \A i \in 1..Len(val_datasets[1]) :
                        IsLoader(last'.ret[i], val_datasets[1][i], FALSE, val_batch_size,
                                 num_workers.val)
            /\ (last'.op = "test_dataloader" /\ last'.raised = NoError) =>
                  /\ test_datasets # None
                  /\ Len(last'.ret) = Len(test_datasets[1])
                  /\ \A i \in 1..Len(test_datasets[1]) :
                        IsLoader(last'.ret[i], test_datasets[1][i], FALSE, test_batch_size,
                                 num_workers.test)
      ]_vars

C8_Witness ==
    /\ last.op = "val_dataloader"
    /\ last.raised = NoError
    /\ Len(last.ret) = 2
    /\ last.ret[1].dataset # last.ret[2].dataset

\* the setup call got through its fit branch: it returned, or it raised in the test branch
FitDone == last'.raised = NoError \/ last'.raised.split = "test"

\* C9: a populated train_dataset is never assigned again; a setup call whose fit branch
\* completes replaces val_datasets by datasets built in that call, one per validation
\* configuration, and a setup call whose test branch completes does so for test_datasets.
C9_TrainOnceOthersReplaced ==
    [][ /\ train_dataset # None =>
              (train_dataset' # None /\ train_dataset'[1].id = train_dataset[1].id)
        /\ (SetupStep /\ last'.stage \in {NoStage, "fit"} /\ FitDone) =>
              /\ val_datasets' # None
              /\ Len(val_datasets'[1]) = Len(datasets.val)
              /\ \A d \in Elems(val_datasets'[1]) :
                    d.id.call = ncalls' /\ d.id \notin {h.id : h \in HeldDatasets}
        /\ (SetupStep /\ last'.stage \in {NoStage, "test"} /\ last'.raised = NoError) =>
              /\ test_datasets' # None
              /\ Len(test_datasets'[1]) = Len(datasets.test)
              /\ \A d \in Elems(test_datasets'[1]) :
                    d.id.call = ncalls' /\ d.id \notin {h.id : h \in HeldDatasets}
      ]_vars

C9_Witness ==
    /\ last.op = "setup" /\ last.stage = "fit" /\ last.raised = NoError
    /\ ncalls = 2
    /\ train_dataset # None /\ train_dataset[1].id.call = 1
    /\ val_datasets # None /\ Len(val_datasets[1]) = 2
    /\ \A d \in Elems(val_datasets[1]) : d.id.call = 2

\* number of training datasets the constructor built
BuiltByInit == IF scaler_path = None THEN 1 ELSE 0

\* C10: the training configuration is instantiated once by the constructor when there is
\* no scaler path and never otherwise, and once more by the setup call that populates
\* train_dataset, which every returning setup covering "fit" finds populated or populates:
\* two datasets without a scaler path, one with it, and the one served for training is
\* never the one the scalers were computed from.
C10_ScalerDatasetNotServed ==
    [][ /\ status' = "ready" =>
              /\ Len(built') = BuiltByInit' + (IF train_dataset' = None THEN 0 ELSE 1)
              /\ train_dataset' # None =>
                    /\ train_dataset'[1].id = built'[Len(built')]
                    /\ train_dataset'[1].id.call >= 1
                    /\ \A i \in 1..BuiltByInit' : built'[i] # train_dataset'[1].id
        /\ (status = "ready" /\ built' # built) =>
              /\ SetupStep /\ last'.stage \in {NoStage, "fit"}
              /\ train_dataset = None /\ train_dataset' # None
        /\ (SetupStep /\ last'.stage \in {NoStage, "fit"} /\ last'.raised = NoError) =>
              Len(built') = BuiltByInit' + 1
      ]_vars

C10_Witness ==
    /\ status = "ready"
    /\ scaler_path = None
    /\ Len(built) = 2
    /\ built[1].call = 0 /\ built[2].call = 1
    /\ train_dataset # None
    /\ last.op = "setup" /\ last.raised = NoError

====
